---------------------------- MODULE Spec2Model ----------------------------
(***************************************************************************)
(* The default safety hooks of the panda CAN gateway, in its two builds:  *)
(*   "HKG"  - panda/board/safety/safety_defaults_HKG.h  (LKAS11 bus       *)
(*            hysteresis: HKG_forward_bus2 / HKG_LKAS_bus0_cnt)            *)
(*   "test" - panda/board/safety/safety_defaults_test.h (generic default) *)
(* Each build defines the two policies nooutput_hooks and alloutput_hooks. *)
(* Every hook is a pure operator from the memory before the call and the  *)
(* arguments to the memory after the call, the return value and the text  *)
(* written with puts(); one action per entry point applies it.            *)
(***************************************************************************)
EXTENDS Integers, Sequences, FiniteSets, TLC

VARIABLES
  build,              \* which of the two header files is compiled in
  current_hooks,      \* the active policy: "none", "nooutput", "alloutput"
  HKG_forward_bus2,   \* safety_defaults_HKG.h:1
  HKG_LKAS_bus0_cnt,  \* safety_defaults_HKG.h:2
  controls_allowed,   \* safety latch
  relay_malfunction,  \* safety latch
  has_obd,            \* current_board->has_obd
  can_mode,           \* the mode last given to current_board->set_can_mode
  console,            \* the first MaxLog lines written with puts()
  bus2_since_bus0,    \* history: 832-frames rx'd on bus 2 since the last
                      \* 832-frame rx'd on bus 0 (-1: none on bus 0 yet)
  lastCall,           \* history: the last call, its arguments, its result
                      \* and the memory it started from
  rx_calls            \* the rx invocations in progress when rx is followed
                      \* statement by statement, and whether they are
                      \* serialized

vars == <<build, current_hooks, HKG_forward_bus2, HKG_LKAS_bus0_cnt,
          controls_allowed, relay_malfunction, has_obd, can_mode, console,
          bus2_since_bus0, lastCall, rx_calls>>

---------------------------------------------------------------------------
\* Bounds of the inputs the model enumerates.

\* frames carry a bus 0..MaxBus; fwd is asked about bus_num -1..MaxBus+1
MaxBus == 2
\* addresses 0..MaxAddr besides 832 and 1157
MaxAddr == 0
\* init's param ranges over -1..MaxParam
MaxParam == 0
\* tx_lin's lin_num and len range over 0..MaxLin
MaxLin == 1
\* puts() lines kept in console
MaxLog == 3
\* bus2_since_bus0 saturates here
MaxSince == 12
\* rx invocations that may be in progress together
MaxCalls == 2
\* HKG_LKAS_bus0_cnt is followed down to -MaxDeficit when invocations race
MaxDeficit == 2

Builds == {"HKG", "test"}
Policies == {"nooutput", "alloutput"}
Buses == 0..MaxBus
BusNums == -1..(MaxBus + 1)
Addrs == {832, 1157} \cup (0..MaxAddr)
Frames == [bus : Buses, addr : Addrs]
Params == -1..MaxParam
LinNums == 0..MaxLin
LinLens == 0..MaxLin
\* the len bytes tx_lin is given
LinData(len) == [1..len -> {0}]
\* the frame the driver asks fwd about came in on bus_num, when that is a bus
FwdFrames(bus_num) ==
  {f \in Frames : f.bus = (IF bus_num \in Buses THEN bus_num ELSE 0)}

---------------------------------------------------------------------------
\* Frame accessors and the memory the hooks work on.

GET_BUS(to_push) == to_push.bus
GET_ADDR(to_push) == to_push.addr

\* the globals, as one record
Mem == [HKG_forward_bus2  |-> HKG_forward_bus2,
        HKG_LKAS_bus0_cnt |-> HKG_LKAS_bus0_cnt,
        controls_allowed  |-> controls_allowed,
        relay_malfunction |-> relay_malfunction,
        has_obd           |-> has_obd,
        can_mode          |-> can_mode]

\* what a call leaves behind: memory, return value, lines written
Result(m, ret, puts) == [m |-> m, ret |-> ret, puts |-> puts]

\* const addr_checks default_rx_checks = { .check = NULL, .len = 0 }
default_rx_checks == [check |-> "NULL", len |-> 0]

\* relay_malfunction_reset(): clears the relay-malfunction latch
relay_malfunction_reset(m) == [m EXCEPT !.relay_malfunction = FALSE]

\* current_board->set_can_mode(mode)
set_can_mode(m, mode) == [m EXCEPT !.can_mode = mode]

---------------------------------------------------------------------------
\* safety_defaults_HKG.h

\* the two lines default_rx_hook writes
MsgDisabled == "LKAS on bus0: forwarding disabled"
MsgEnabled == "LKAS on bus2 & not on bus0: forwarding enabled"

\* a slip: bus 2 tests the flag the wrong way round before resuming
rx_bus2_never_resumes(m, to_push) ==
  LET bus  == GET_BUS(to_push)
      addr == GET_ADDR(to_push)
      r0 == IF addr = 832 /\ bus = 0
              THEN LET m1 == [m EXCEPT !.HKG_LKAS_bus0_cnt = 10]
                   IN  IF m1.HKG_forward_bus2
                         THEN Result([m1 EXCEPT !.HKG_forward_bus2 = FALSE],
                                     TRUE, <<MsgDisabled>>)
                         ELSE Result(m1, TRUE, <<>>)
              ELSE Result(m, TRUE, <<>>)
      r2 == IF addr = 832 /\ bus = 2
              THEN IF r0.m.HKG_LKAS_bus0_cnt > 0
                     THEN Result([r0.m EXCEPT !.HKG_LKAS_bus0_cnt = @ - 1],
                                 TRUE, r0.puts)
                     ELSE IF r0.m.HKG_forward_bus2
                            THEN Result([r0.m EXCEPT !.HKG_forward_bus2 = TRUE],
                                        TRUE, Append(r0.puts, MsgEnabled))
                            ELSE r0
              ELSE r0
  IN  r2

\* a slip: bus 0 adds the hold value to the counter
rx_bus0_adds_hold(m, to_push) ==
  LET bus  == GET_BUS(to_push)
      addr == GET_ADDR(to_push)
      r0 == IF addr = 832 /\ bus = 0
              THEN LET m1 == [m EXCEPT !.HKG_LKAS_bus0_cnt = @ + 10]
                   IN  IF m1.HKG_forward_bus2
                         THEN Result([m1 EXCEPT !.HKG_forward_bus2 = FALSE],
                                     TRUE, <<MsgDisabled>>)
                         ELSE Result(m1, TRUE, <<>>)
              ELSE Result(m, TRUE, <<>>)
      r2 == IF addr = 832 /\ bus = 2
              THEN IF r0.m.HKG_LKAS_bus0_cnt > 0
                     THEN Result([r0.m EXCEPT !.HKG_LKAS_bus0_cnt = @ - 1],
                                 TRUE, r0.puts)
                     ELSE IF ~r0.m.HKG_forward_bus2
                            THEN Result([r0.m EXCEPT !.HKG_forward_bus2 = TRUE],
                                        TRUE, Append(r0.puts, MsgEnabled))
                            ELSE r0
              ELSE r0
  IN  r2

\* a slip: bus 0 writes the flag and the line without testing the flag
rx_bus0_level_triggered(m, to_push) ==
  LET bus  == GET_BUS(to_push)
      addr == GET_ADDR(to_push)
      r0 == IF addr = 832 /\ bus = 0
              THEN Result([m EXCEPT !.HKG_LKAS_bus0_cnt = 10,
                                    !.HKG_forward_bus2 = FALSE],
                          TRUE, <<MsgDisabled>>)
              ELSE Result(m, TRUE, <<>>)
      r2 == IF addr = 832 /\ bus = 2
              THEN IF r0.m.HKG_LKAS_bus0_cnt > 0
                     THEN Result([r0.m EXCEPT !.HKG_LKAS_bus0_cnt = @ - 1],
                                 TRUE, r0.puts)
                     ELSE IF ~r0.m.HKG_forward_bus2
                            THEN Result([r0.m EXCEPT !.HKG_forward_bus2 = TRUE],
                                        TRUE, Append(r0.puts, MsgEnabled))
                            ELSE r0
              ELSE r0
  IN  r2

\* a slip: bus 0 arms the hold counter only on the edge
rx_bus0_arm_on_edge_only(m, to_push) ==
  LET bus  == GET_BUS(to_push)
      addr == GET_ADDR(to_push)
      r0 == IF addr = 832 /\ bus = 0 /\ m.HKG_forward_bus2
              THEN Result([m EXCEPT !.HKG_LKAS_bus0_cnt = 10,
                                    !.HKG_forward_bus2 = FALSE],
                          TRUE, <<MsgDisabled>>)
              ELSE Result(m, TRUE, <<>>)
      r2 == IF addr = 832 /\ bus = 2
              THEN IF r0.m.HKG_LKAS_bus0_cnt > 0
                     THEN Result([r0.m EXCEPT !.HKG_LKAS_bus0_cnt = @ - 1],
                                 TRUE, r0.puts)
                     ELSE IF ~r0.m.HKG_forward_bus2
                            THEN Result([r0.m EXCEPT !.HKG_forward_bus2 = TRUE],
                                        TRUE, Append(r0.puts, MsgEnabled))
                            ELSE r0
              ELSE r0
  IN  r2

\* a slip: bus 2 decrements the hold counter without testing it
rx_bus2_unguarded_decrement(m, to_push) ==
  LET bus  == GET_BUS(to_push)
      addr == GET_ADDR(to_push)
      r0 == IF addr = 832 /\ bus = 0
              THEN LET m1 == [m EXCEPT !.HKG_LKAS_bus0_cnt = 10]
                   IN  IF m1.HKG_forward_bus2
                         THEN Result([m1 EXCEPT !.HKG_forward_bus2 = FALSE],
                                     TRUE, <<MsgDisabled>>)
                         ELSE Result(m1, TRUE, <<>>)
              ELSE Result(m, TRUE, <<>>)
      r2 == IF addr = 832 /\ bus = 2
              THEN LET m1 == [r0.m EXCEPT !.HKG_LKAS_bus0_cnt = @ - 1]
                   IN  IF m1.HKG_LKAS_bus0_cnt <= 0 /\ ~m1.HKG_forward_bus2
                         THEN Result([m1 EXCEPT !.HKG_forward_bus2 = TRUE],
                                     TRUE, Append(r0.puts, MsgEnabled))
                         ELSE Result(m1, TRUE, r0.puts)
              ELSE r0
  IN  r2

\* a slip: bus 2 resumes in the call that brings the hold counter to 0
rx_bus2_resume_at_zero(m, to_push) ==
  LET bus  == GET_BUS(to_push)
      addr == GET_ADDR(to_push)
      r0 == IF addr = 832 /\ bus = 0
              THEN LET m1 == [m EXCEPT !.HKG_LKAS_bus0_cnt = 10]
                   IN  IF m1.HKG_forward_bus2
                         THEN Result([m1 EXCEPT !.HKG_forward_bus2 = FALSE],
                                     TRUE, <<MsgDisabled>>)
                         ELSE Result(m1, TRUE, <<>>)
              ELSE Result(m, TRUE, <<>>)
      r2 == IF addr = 832 /\ bus = 2
              THEN LET m1 == IF r0.m.HKG_LKAS_bus0_cnt > 0
                               THEN [r0.m EXCEPT !.HKG_LKAS_bus0_cnt = @ - 1]
                               ELSE r0.m
                   IN  IF m1.HKG_LKAS_bus0_cnt = 0 /\ ~m1.HKG_forward_bus2
                         THEN Result([m1 EXCEPT !.HKG_forward_bus2 = TRUE],
                                     TRUE, Append(r0.puts, MsgEnabled))
                         ELSE Result(m1, TRUE, r0.puts)
              ELSE r0
  IN  r2

\* a slip: the frame that suspends the relay is itself rejected
rx_rejects_on_edge(m, to_push) ==
  LET bus  == GET_BUS(to_push)
      addr == GET_ADDR(to_push)
      r0 == IF addr = 832 /\ bus = 0
              THEN LET m1 == [m EXCEPT !.HKG_LKAS_bus0_cnt = 10]
                   IN  IF m1.HKG_forward_bus2
                         THEN Result([m1 EXCEPT !.HKG_forward_bus2 = FALSE],
                                     FALSE, <<MsgDisabled>>)
                         ELSE Result(m1, TRUE, <<>>)
              ELSE Result(m, TRUE, <<>>)
      r2 == IF addr = 832 /\ bus = 2
              THEN IF r0.m.HKG_LKAS_bus0_cnt > 0
                     THEN Result([r0.m EXCEPT !.HKG_LKAS_bus0_cnt = @ - 1],
                                 TRUE, r0.puts)
                     ELSE IF ~r0.m.HKG_forward_bus2
                            THEN Result([r0.m EXCEPT !.HKG_forward_bus2 = TRUE],
                                        TRUE, Append(r0.puts, MsgEnabled))
                            ELSE r0
              ELSE r0
  IN  r2

default_rx_hook_HKG(m, to_push) ==
  LET bus  == GET_BUS(to_push)
      addr == GET_ADDR(to_push)
      \* if (bus == 0) { ... }
      r0 == IF addr = 832 /\ bus = 0
              THEN LET m1 == [m EXCEPT !.HKG_LKAS_bus0_cnt = 10]
                   IN  IF m1.HKG_forward_bus2
                         THEN Result([m1 EXCEPT !.HKG_forward_bus2 = FALSE],
                                     TRUE, <<MsgDisabled>>)
                         ELSE Result(m1, TRUE, <<>>)
              ELSE Result(m, TRUE, <<>>)
      \* if (bus == 2) { ... }
      r2 == IF addr = 832 /\ bus = 2
              THEN IF r0.m.HKG_LKAS_bus0_cnt > 0
                     THEN Result([r0.m EXCEPT !.HKG_LKAS_bus0_cnt = @ - 1],
                                 TRUE, r0.puts)
                     ELSE IF ~r0.m.HKG_forward_bus2
                            THEN Result([r0.m EXCEPT !.HKG_forward_bus2 = TRUE],
                                        TRUE, Append(r0.puts, MsgEnabled))
                            ELSE r0
              ELSE r0
  IN  r2

\* a slip: init leaves controls_allowed as the previous policy had it
nooutput_init_stale_controls(m, param) ==
  LET m2 == relay_malfunction_reset(m)
  IN  Result(m2, default_rx_checks, <<>>)

\* a slip: init also restarts the hysteresis
nooutput_init_restarts_hysteresis(m, param) ==
  LET m1 == [m EXCEPT !.controls_allowed = FALSE,
                      !.HKG_forward_bus2 = TRUE, !.HKG_LKAS_bus0_cnt = 0]
      m2 == relay_malfunction_reset(m1)
  IN  Result(m2, default_rx_checks, <<>>)

nooutput_init_HKG(m, param) ==
  LET m1 == [m EXCEPT !.controls_allowed = FALSE]
      m2 == relay_malfunction_reset(m1)
  IN  Result(m2, default_rx_checks, <<>>)

\* a slip: the denying tx also clears controls_allowed
tx_clears_controls_allowed(m, to_send) ==
  Result([m EXCEPT !.controls_allowed = FALSE], FALSE, <<>>)

\* a slip: tx follows controls_allowed
tx_follows_controls_allowed(m, to_send) == Result(m, m.controls_allowed, <<>>)

nooutput_tx_hook_HKG(m, to_send) == Result(m, FALSE, <<>>)

nooutput_tx_lin_hook_HKG(m, lin_num, data, len) == Result(m, FALSE, <<>>)

\* a slip: the router does not look at the flag
fwd_HKG_ignores_flag(m, bus_num, to_fwd) ==
  LET bus_fwd0 == -1
      bus_fwd1 == IF bus_num = 0 THEN 2 ELSE bus_fwd0
      bus_fwd2 == IF bus_num = 2 THEN 0 ELSE bus_fwd1
  IN  Result(m, bus_fwd2, <<>>)

\* the variant left commented out at lines 68-69: bus 2 keeps 832 and 1157
fwd_HKG_with_address_exception(m, bus_num, to_fwd) ==
  LET addr == GET_ADDR(to_fwd)
      bus_fwd0 == -1
      bus_fwd1 == IF m.HKG_forward_bus2 /\ bus_num = 0 THEN 2 ELSE bus_fwd0
      bus_fwd2 == IF m.HKG_forward_bus2 /\ bus_num = 2
                     /\ (addr # 832) /\ (addr # 1157)
                    THEN 0 ELSE bus_fwd1
  IN  Result(m, bus_fwd2, <<>>)

default_fwd_hook_HKG(m, bus_num, to_fwd) ==
  LET bus_fwd0 == -1
      bus_fwd1 == IF m.HKG_forward_bus2 /\ bus_num = 0 THEN 2 ELSE bus_fwd0
      bus_fwd2 == IF m.HKG_forward_bus2 /\ bus_num = 2 THEN 0 ELSE bus_fwd1
  IN  Result(m, bus_fwd2, <<>>)

\* a slip: init flips controls_allowed instead of setting it
alloutput_init_toggles(m, param) ==
  LET m1 == [m EXCEPT !.controls_allowed = ~@]
      m2 == relay_malfunction_reset(m1)
  IN  Result(m2, default_rx_checks, <<>>)

alloutput_init_HKG(m, param) ==
  LET m1 == [m EXCEPT !.controls_allowed = TRUE]
      m2 == relay_malfunction_reset(m1)
  IN  Result(m2, default_rx_checks, <<>>)

alloutput_tx_hook_HKG(m, to_send) == Result(m, TRUE, <<>>)

alloutput_tx_lin_hook_HKG(m, lin_num, data, len) == Result(m, TRUE, <<>>)

nooutput_hooks_HKG ==
  [init   |-> "nooutput_init_HKG",
   rx     |-> "default_rx_hook_HKG",
   tx     |-> "nooutput_tx_hook_HKG",
   tx_lin |-> "nooutput_tx_lin_hook_HKG",
   fwd    |-> "default_fwd_hook_HKG"]

\* a slip: alloutput is given a receive hook that keeps no hysteresis
alloutput_hooks_plain_rx ==
  [init   |-> "alloutput_init_HKG",
   rx     |-> "default_rx_hook_test",
   tx     |-> "alloutput_tx_hook_HKG",
   tx_lin |-> "alloutput_tx_lin_hook_HKG",
   fwd    |-> "default_fwd_hook_HKG"]

alloutput_hooks_HKG ==
  [init   |-> "alloutput_init_HKG",
   rx     |-> "default_rx_hook_HKG",
   tx     |-> "alloutput_tx_hook_HKG",
   tx_lin |-> "alloutput_tx_lin_hook_HKG",
   fwd    |-> "default_fwd_hook_HKG"]

---------------------------------------------------------------------------
\* safety_defaults_test.h

default_rx_hook_test(m, to_push) == Result(m, TRUE, <<>>)

\* a slip: the mode is set without asking the board
nooutput_init_sets_obd_always(m, param) ==
  LET m1 == [m EXCEPT !.controls_allowed = FALSE]
      m2 == relay_malfunction_reset(m1)
  IN  Result(set_can_mode(m2, "CAN_MODE_OBD_CAN2"), default_rx_checks,
             <<"setting can mode obd">>)

nooutput_init_test(m, param) ==
  LET m1 == [m EXCEPT !.controls_allowed = FALSE]
      m2 == relay_malfunction_reset(m1)
  IN  IF m2.has_obd
        THEN Result(set_can_mode(m2, "CAN_MODE_OBD_CAN2"), default_rx_checks,
                    <<"setting can mode obd">>)
        ELSE Result(m2, default_rx_checks, <<>>)

nooutput_tx_hook_test(m, to_send) == Result(m, FALSE, <<>>)

nooutput_tx_lin_hook_test(m, lin_num, data, len) == Result(m, FALSE, <<>>)

\* a slip: only 832 is held back on bus 2
fwd_test_forgets_1157(m, bus_num, to_fwd) ==
  LET addr == GET_ADDR(to_fwd)
      bus_fwd0 == -1
      bus_fwd1 == IF bus_num = 0 THEN 2 ELSE bus_fwd0
      bus_fwd2 == IF bus_num = 1 THEN 20 ELSE bus_fwd1
      bus_fwd3 == IF (bus_num = 2) /\ (addr # 832) THEN 0 ELSE bus_fwd2
  IN  Result(m, bus_fwd3, <<>>)

default_fwd_hook_test(m, bus_num, to_fwd) ==
  LET addr == GET_ADDR(to_fwd)
      bus_fwd0 == -1
      bus_fwd1 == IF bus_num = 0 THEN 2 ELSE bus_fwd0
      bus_fwd2 == IF bus_num = 1 THEN 20 ELSE bus_fwd1
      bus_fwd3 == IF (bus_num = 2) /\ (addr # 832) /\ (addr # 1157)
                    THEN 0 ELSE bus_fwd2
  IN  Result(m, bus_fwd3, <<>>)

alloutput_init_test(m, param) ==
  LET m1 == [m EXCEPT !.controls_allowed = TRUE]
      m2 == relay_malfunction_reset(m1)
  IN  Result(m2, default_rx_checks, <<>>)

alloutput_tx_hook_test(m, to_send) == Result(m, TRUE, <<>>)

alloutput_tx_lin_hook_test(m, lin_num, data, len) == Result(m, TRUE, <<>>)

nooutput_hooks_test ==
  [init   |-> "nooutput_init_test",
   rx     |-> "default_rx_hook_test",
   tx     |-> "nooutput_tx_hook_test",
   tx_lin |-> "nooutput_tx_lin_hook_test",
   fwd    |-> "default_fwd_hook_test"]

alloutput_hooks_test ==
  [init   |-> "alloutput_init_test",
   rx     |-> "default_rx_hook_test",
   tx     |-> "alloutput_tx_hook_test",
   tx_lin |-> "alloutput_tx_lin_hook_test",
   fwd    |-> "default_fwd_hook_test"]

---------------------------------------------------------------------------
\* Calls through the hook table of the active policy.

\* the safety_hooks table a build gives a policy
hooks_of(b, p) ==
  CASE b = "HKG"  /\ p = "nooutput"  -> nooutput_hooks_HKG
    [] b = "HKG"  /\ p = "alloutput" -> alloutput_hooks_HKG
    [] b = "test" /\ p = "nooutput"  -> nooutput_hooks_test
    [] b = "test" /\ p = "alloutput" -> alloutput_hooks_test

call_init(fn, m, param) ==
  CASE fn = "nooutput_init_HKG"   -> nooutput_init_HKG(m, param)
    [] fn = "alloutput_init_HKG"  -> alloutput_init_HKG(m, param)
    [] fn = "nooutput_init_test"  -> nooutput_init_test(m, param)
    [] fn = "alloutput_init_test" -> alloutput_init_test(m, param)

call_rx(fn, m, to_push) ==
  CASE fn = "default_rx_hook_HKG"  -> default_rx_hook_HKG(m, to_push)
    [] fn = "default_rx_hook_test" -> default_rx_hook_test(m, to_push)

call_tx(fn, m, to_send) ==
  CASE fn = "nooutput_tx_hook_HKG"   -> nooutput_tx_hook_HKG(m, to_send)
    [] fn = "alloutput_tx_hook_HKG"  -> alloutput_tx_hook_HKG(m, to_send)
    [] fn = "nooutput_tx_hook_test"  -> nooutput_tx_hook_test(m, to_send)
    [] fn = "alloutput_tx_hook_test" -> alloutput_tx_hook_test(m, to_send)

call_tx_lin(fn, m, lin_num, data, len) ==
  CASE fn = "nooutput_tx_lin_hook_HKG"   -> nooutput_tx_lin_hook_HKG(m, lin_num, data, len)
    [] fn = "alloutput_tx_lin_hook_HKG"  -> alloutput_tx_lin_hook_HKG(m, lin_num, data, len)
    [] fn = "nooutput_tx_lin_hook_test"  -> nooutput_tx_lin_hook_test(m, lin_num, data, len)
    [] fn = "alloutput_tx_lin_hook_test" -> alloutput_tx_lin_hook_test(m, lin_num, data, len)

call_fwd(fn, m, bus_num, to_fwd) ==
  CASE fn = "default_fwd_hook_HKG"  -> default_fwd_hook_HKG(m, bus_num, to_fwd)
    [] fn = "default_fwd_hook_test" -> default_fwd_hook_test(m, bus_num, to_fwd)

---------------------------------------------------------------------------
\* The state machine.

\* console keeps the first MaxLog lines
Logged(puts) ==
  LET all == console \o puts
  IN  IF Len(all) <= MaxLog THEN all ELSE SubSeq(all, 1, MaxLog)

\* a call returned r: the globals take the memory it left
Commit(r) ==
  /\ HKG_forward_bus2'  = r.m.HKG_forward_bus2
  /\ HKG_LKAS_bus0_cnt' = r.m.HKG_LKAS_bus0_cnt
  /\ controls_allowed'  = r.m.controls_allowed
  /\ relay_malfunction' = r.m.relay_malfunction
  /\ has_obd'           = r.m.has_obd
  /\ can_mode'          = r.m.can_mode
  /\ console'           = Logged(r.puts)

\* a return value, under the name of what it answers
Returned(op, v) ==
  CASE op = "init"              -> [checks |-> v]
    [] op = "rx"                -> [accept |-> v]
    [] op \in {"tx", "tx_lin"}  -> [permit |-> v]
    [] op = "fwd"               -> [bus_fwd |-> v]
    [] op = "can_rx"            -> v

Called(op, p, args, r) ==
  [op |-> op, hooks |-> p, was |-> current_hooks, args |-> args,
   ret |-> Returned(op, r.ret), puts |-> r.puts, pre |-> Mem]

NoCall == [op |-> "boot", hooks |-> "none", was |-> "none",
           args |-> [none |-> TRUE], ret |-> [none |-> TRUE],
           puts |-> <<>>,
           pre |-> [HKG_forward_bus2 |-> TRUE, HKG_LKAS_bus0_cnt |-> 0,
                    controls_allowed |-> FALSE, relay_malfunction |-> FALSE,
                    has_obd |-> FALSE, can_mode |-> "CAN_MODE_NORMAL"]]

\* no rx invocation in progress; hooks run one at a time
NoCalls == [serialized |-> TRUE,
            t |-> [i \in 1..MaxCalls |->
                     [pc |-> "idle", to_push |-> [bus |-> 0, addr |-> 0],
                      tmp |-> 0]]]

Init ==
  /\ rx_calls = NoCalls
  /\ build \in Builds
  /\ current_hooks = "none"
  /\ HKG_forward_bus2 = TRUE
  /\ HKG_LKAS_bus0_cnt = 0
  /\ controls_allowed = FALSE
  /\ relay_malfunction = FALSE
  /\ has_obd \in BOOLEAN
  /\ can_mode = "CAN_MODE_NORMAL"
  /\ console = <<>>
  /\ bus2_since_bus0 = -1
  /\ lastCall = [NoCall EXCEPT !.pre.has_obd = has_obd]

\* the dispatcher selects policy p and runs its init
safety_set_mode(p, param) ==
  LET r == call_init(hooks_of(build, p).init, Mem, param)
  IN  /\ current_hooks' = p
      /\ Commit(r)
      /\ lastCall' = Called("init", p, [param |-> param], r)
      /\ UNCHANGED <<rx_calls, build, bus2_since_bus0>>

\* bus2_since_bus0 once to_push was received
Since(to_push) ==
  IF to_push.addr = 832 /\ to_push.bus = 0 THEN 0
  ELSE IF to_push.addr = 832 /\ to_push.bus = 2
          /\ bus2_since_bus0 >= 0 /\ bus2_since_bus0 < MaxSince
       THEN bus2_since_bus0 + 1
  ELSE bus2_since_bus0

\* the bus driver received to_push
safety_rx_hook(to_push) ==
  /\ current_hooks \in Policies
  /\ LET r == call_rx(hooks_of(build, current_hooks).rx, Mem, to_push)
     IN  /\ Commit(r)
         /\ lastCall' = Called("rx", current_hooks, [to_push |-> to_push], r)
  /\ bus2_since_bus0' = Since(to_push)
  /\ UNCHANGED <<rx_calls, build, current_hooks>>

\* the node wants to send to_send
safety_tx_hook(to_send) ==
  /\ current_hooks \in Policies
  /\ LET r == call_tx(hooks_of(build, current_hooks).tx, Mem, to_send)
     IN  /\ Commit(r)
         /\ lastCall' = Called("tx", current_hooks, [to_send |-> to_send], r)
  /\ UNCHANGED <<rx_calls, build, current_hooks, bus2_since_bus0>>

\* the node wants to send a LIN frame
safety_tx_lin_hook(lin_num, data, len) ==
  /\ current_hooks \in Policies
  /\ LET r == call_tx_lin(hooks_of(build, current_hooks).tx_lin, Mem,
                          lin_num, data, len)
     IN  /\ Commit(r)
         /\ lastCall' = Called("tx_lin", current_hooks,
                               [lin_num |-> lin_num, data |-> data, len |-> len], r)
  /\ UNCHANGED <<rx_calls, build, current_hooks, bus2_since_bus0>>

\* the bus driver asks where to relay to_fwd, which came in on bus_num
safety_fwd_hook(bus_num, to_fwd) ==
  /\ current_hooks \in Policies
  /\ LET r == call_fwd(hooks_of(build, current_hooks).fwd, Mem, bus_num, to_fwd)
     IN  /\ Commit(r)
         /\ lastCall' = Called("fwd", current_hooks,
                               [bus_num |-> bus_num, to_fwd |-> to_fwd], r)
  /\ UNCHANGED <<rx_calls, build, current_hooks, bus2_since_bus0>>

\* a runtime integrity monitor outside this core writes the safety latches
integrity_monitor(ca, rm) ==
  /\ <<ca, rm>> # <<controls_allowed, relay_malfunction>>
  /\ controls_allowed' = ca
  /\ relay_malfunction' = rm
  /\ lastCall' = [op |-> "monitor", hooks |-> current_hooks,
                  was |-> current_hooks, args |-> [none |-> TRUE],
                  ret |-> [none |-> TRUE], puts |-> <<>>, pre |-> Mem]
  /\ UNCHANGED <<rx_calls, build, current_hooks, HKG_forward_bus2, HKG_LKAS_bus0_cnt,
                 has_obd, can_mode, console, bus2_since_bus0>>

Next ==
  \/ \E p \in Policies, param \in Params : safety_set_mode(p, param)
  \/ \E to_push \in Frames : safety_rx_hook(to_push)
  \/ \E to_send \in Frames : safety_tx_hook(to_send)
  \/ \E lin_num \in LinNums, len \in LinLens : \E data \in LinData(len) :
        safety_tx_lin_hook(lin_num, data, len)
  \/ \E bus_num \in BusNums : \E to_fwd \in FwdFrames(bus_num) :
        safety_fwd_hook(bus_num, to_fwd)
  \/ \E ca \in BOOLEAN, rm \in BOOLEAN : integrity_monitor(ca, rm)

Spec == Init /\ [][Next]_vars

\* the bus driver's receive path: the rx hook, then the fwd hook for the
\* bus the frame came in on, as one step
can_rx(to_push) ==
  /\ current_hooks \in Policies
  /\ LET h  == hooks_of(build, current_hooks)
         r1 == call_rx(h.rx, Mem, to_push)
         r2 == call_fwd(h.fwd, r1.m, GET_BUS(to_push), to_push)
         r  == Result(r2.m, [accept |-> r1.ret, bus_fwd |-> r2.ret],
                      r1.puts \o r2.puts)
     IN  /\ Commit(r)
         /\ lastCall' = Called("can_rx", current_hooks, [to_push |-> to_push], r)
  /\ bus2_since_bus0' = Since(to_push)
  /\ UNCHANGED <<rx_calls, build, current_hooks>>

DriverNext ==
  \/ \E p \in Policies, param \in Params : safety_set_mode(p, param)
  \/ \E to_push \in Frames : can_rx(to_push)

\* policies are activated and frames are received, each relayed or not
DriverSpec == Init /\ [][DriverNext]_vars

---------------------------------------------------------------------------
\* default_rx_hook of safety_defaults_HKG.h, one read or write of
\* HKG_LKAS_bus0_cnt / HKG_forward_bus2 at a time, for MaxCalls invocations
\* in progress together. The lines written with puts() are not followed.

Idle(i) == rx_calls.t[i].pc = "idle"
Quiescent == \A i \in 1..MaxCalls : Idle(i)

\* with a lock around the hook, an invocation starts only when none runs
MayBegin(i) == Idle(i) /\ (rx_calls.serialized => Quiescent)

\* invocation i goes on at pc with tmp in its register
Goto(i, pc, tmp) ==
  rx_calls' = [rx_calls EXCEPT !.t[i].pc = pc, !.t[i].tmp = tmp]

\* invocation i returns true
Return(i) ==
  rx_calls' = [rx_calls EXCEPT !.t[i] = NoCalls.t[i]]

RaceFrame ==
  UNCHANGED <<build, current_hooks, controls_allowed, relay_malfunction,
              has_obd, can_mode, console, bus2_since_bus0, lastCall>>

\* lines 10-14, 22: bus and addr are read from the frame
rx_begin(i, to_push) ==
  /\ MayBegin(i)
  /\ current_hooks \in Policies
  /\ hooks_of(build, current_hooks).rx = "default_rx_hook_HKG"
  /\ LET bus  == GET_BUS(to_push)
         addr == GET_ADDR(to_push)
     IN  rx_calls' =
           IF addr = 832 /\ bus = 0
             THEN [rx_calls EXCEPT !.t[i].pc = "L15", !.t[i].to_push = to_push]
           ELSE IF addr = 832 /\ bus = 2
             THEN [rx_calls EXCEPT !.t[i].pc = "L23", !.t[i].to_push = to_push]
           ELSE rx_calls
  /\ UNCHANGED <<HKG_forward_bus2, HKG_LKAS_bus0_cnt>>
  /\ RaceFrame

\* line 15: HKG_LKAS_bus0_cnt = 10
rx_L15(i) ==
  /\ rx_calls.t[i].pc = "L15"
  /\ HKG_LKAS_bus0_cnt' = 10
  /\ Goto(i, "L16", 0)
  /\ UNCHANGED HKG_forward_bus2
  /\ RaceFrame

\* line 16: if (HKG_forward_bus2)
rx_L16(i) ==
  /\ rx_calls.t[i].pc = "L16"
  /\ IF HKG_forward_bus2 THEN Goto(i, "L18", 0) ELSE Return(i)
  /\ UNCHANGED <<HKG_forward_bus2, HKG_LKAS_bus0_cnt>>
  /\ RaceFrame

\* line 18: HKG_forward_bus2 = false
rx_L18(i) ==
  /\ rx_calls.t[i].pc = "L18"
  /\ HKG_forward_bus2' = FALSE
  /\ Return(i)
  /\ UNCHANGED HKG_LKAS_bus0_cnt
  /\ RaceFrame

\* a slip: the test of line 23 is left out
rx_L23_untested(i) ==
  /\ rx_calls.t[i].pc = "L23"
  /\ Goto(i, "L25", HKG_LKAS_bus0_cnt)
  /\ UNCHANGED <<HKG_forward_bus2, HKG_LKAS_bus0_cnt>>
  /\ RaceFrame

\* line 23: if (HKG_LKAS_bus0_cnt > 0)
rx_L23(i) ==
  /\ rx_calls.t[i].pc = "L23"
  /\ IF HKG_LKAS_bus0_cnt > 0
       THEN Goto(i, "L25", HKG_LKAS_bus0_cnt)
       ELSE Goto(i, "L27", 0)
  /\ UNCHANGED <<HKG_forward_bus2, HKG_LKAS_bus0_cnt>>
  /\ RaceFrame

\* line 25, HKG_LKAS_bus0_cnt--: the value to decrement is the one line 23
\* read, or is read again
rx_L25_load(i) ==
  /\ rx_calls.t[i].pc = "L25"
  /\ \E v \in {rx_calls.t[i].tmp, HKG_LKAS_bus0_cnt} : Goto(i, "L25w", v)
  /\ UNCHANGED <<HKG_forward_bus2, HKG_LKAS_bus0_cnt>>
  /\ RaceFrame

\* line 25, HKG_LKAS_bus0_cnt--: the decremented value is written
rx_L25_store(i) ==
  /\ rx_calls.t[i].pc = "L25w"
  /\ rx_calls.t[i].tmp - 1 >= -MaxDeficit
  /\ HKG_LKAS_bus0_cnt' = rx_calls.t[i].tmp - 1
  /\ Return(i)
  /\ UNCHANGED HKG_forward_bus2
  /\ RaceFrame

\* line 27: else if (!HKG_forward_bus2)
rx_L27(i) ==
  /\ rx_calls.t[i].pc = "L27"
  /\ IF ~HKG_forward_bus2 THEN Goto(i, "L29", 0) ELSE Return(i)
  /\ UNCHANGED <<HKG_forward_bus2, HKG_LKAS_bus0_cnt>>
  /\ RaceFrame

\* line 29: HKG_forward_bus2 = true
rx_L29(i) ==
  /\ rx_calls.t[i].pc = "L29"
  /\ HKG_forward_bus2' = TRUE
  /\ Return(i)
  /\ UNCHANGED HKG_LKAS_bus0_cnt
  /\ RaceFrame

\* the HKG build with nooutput active, the hook locked or not
RaceInit ==
  /\ rx_calls \in {[NoCalls EXCEPT !.serialized = b] : b \in BOOLEAN}
  /\ build = "HKG"
  /\ current_hooks = "nooutput"
  /\ HKG_forward_bus2 = TRUE
  /\ HKG_LKAS_bus0_cnt = 0
  /\ controls_allowed = FALSE
  /\ relay_malfunction = FALSE
  /\ has_obd = FALSE
  /\ can_mode = "CAN_MODE_NORMAL"
  /\ console = <<>>
  /\ bus2_since_bus0 = -1
  /\ lastCall = [NoCall EXCEPT !.op = "init", !.hooks = "nooutput",
                               !.args = [param |-> 0],
                               !.ret = [checks |-> default_rx_checks]]

RaceNext ==
  \E i \in 1..MaxCalls :
    \/ \E to_push \in Frames : rx_begin(i, to_push)
    \/ rx_L15(i)
    \/ rx_L16(i)
    \/ rx_L18(i)
    \/ rx_L23(i)
    \/ rx_L25_load(i)
    \/ rx_L25_store(i)
    \/ rx_L27(i)
    \/ rx_L29(i)

RaceSpec == RaceInit /\ [][RaceNext]_vars

---------------------------------------------------------------------------
RxNext ==
  \/ \E p \in Policies, param \in Params : safety_set_mode(p, param)
  \/ \E to_push \in Frames : safety_rx_hook(to_push)

\* policies are activated and frames are received; 832-frames keep
\* arriving on bus 2
RxFairSpec ==
  Init /\ [][RxNext]_vars
       /\ WF_vars(safety_rx_hook([bus |-> 2, addr |-> 832]))

---------------------------------------------------------------------------
\* Properties.

HKG == build = "HKG"
LKAS0 == [bus |-> 0, addr |-> 832]
LKAS2 == [bus |-> 2, addr |-> 832]
RxOf(f) == lastCall.op = "rx" /\ lastCall.args.to_push = f

\* what the hysteresis router is to answer for bus_num when the flag is fwd
FwdExpectedHKG(fwd, bus_num) ==
  IF ~fwd THEN -1
  ELSE IF bus_num = 0 THEN 2
  ELSE IF bus_num = 2 THEN 0
  ELSE -1

\* what the default router is to answer
FwdExpectedDefault(bus_num, addr) ==
  IF bus_num = 0 THEN 2
  ELSE IF bus_num = 1 THEN 20
  ELSE IF bus_num = 2 THEN (IF addr \in {832, 1157} THEN -1 ELSE 0)
  ELSE -1

\* C1, as stated: HKG build, from forward_enabled = TRUE, hold = 0: an
\* 832-frame on bus 0 gives hold = 10 and forward_enabled = FALSE; it stays
\* FALSE over the next 832-frames on bus 2, and is TRUE again once 10 of them
\* were received after the bus-0 frame.
C1_ResumesAfter10 ==
  HKG =>
    /\ bus2_since_bus0 = -1 => HKG_forward_bus2 /\ HKG_LKAS_bus0_cnt = 0
    /\ bus2_since_bus0 = 0 => ~HKG_forward_bus2 /\ HKG_LKAS_bus0_cnt = 10
    /\ bus2_since_bus0 \in 1..9 => ~HKG_forward_bus2
    /\ bus2_since_bus0 >= 10 => HKG_forward_bus2

\* C1, amended: HKG build, from forward_enabled = TRUE, hold = 0: an
\* 832-frame on bus 0 gives hold = 10 and forward_enabled = FALSE; each of
\* the next 10 832-frames on bus 2 decrements hold (to 10 - n after the
\* n-th) with forward_enabled FALSE, and forward_enabled is TRUE again
\* after exactly 11 of them: the 11th finds hold = 0 and flips the flag.
C1_ResumesAfter11 ==
  HKG =>
    /\ bus2_since_bus0 = -1 => HKG_forward_bus2 /\ HKG_LKAS_bus0_cnt = 0
    /\ bus2_since_bus0 \in 0..10 =>
         ~HKG_forward_bus2 /\ HKG_LKAS_bus0_cnt = 10 - bus2_since_bus0
    /\ bus2_since_bus0 >= 11 => HKG_forward_bus2 /\ HKG_LKAS_bus0_cnt = 0

\* the 11th bus-2 frame after a bus-0 frame has just resumed the relay
C1_Witness ==
  /\ HKG /\ RxOf(LKAS2) /\ bus2_since_bus0 = 11
  /\ ~lastCall.pre.HKG_forward_bus2 /\ lastCall.pre.HKG_LKAS_bus0_cnt = 0
  /\ HKG_forward_bus2

\* C2: HKG build: in every reachable state, under either policy and for
\* every frame, fwd answers 2 for bus 0 and 0 for bus 2 when forward_enabled
\* is TRUE, -1 for both when it is FALSE, and -1 for every other bus; and
\* every fwd call made returned just that.
C2_FwdGatedByFlagOnly ==
  HKG =>
    /\ \A p \in Policies, bus_num \in BusNums : \A f \in FwdFrames(bus_num) :
         call_fwd(hooks_of(build, p).fwd, Mem, bus_num, f).ret
           = FwdExpectedHKG(HKG_forward_bus2, bus_num)
    /\ lastCall.op = "fwd" =>
         lastCall.ret.bus_fwd = FwdExpectedHKG(lastCall.pre.HKG_forward_bus2,
                                  lastCall.args.bus_num)

\* an 832-frame from bus 2 was relayed to bus 0 while forward_enabled
C2_Witness ==
  /\ HKG /\ lastCall.op = "fwd" /\ lastCall.args.bus_num = 2
  /\ lastCall.args.to_fwd.addr = 832
  /\ HKG_forward_bus2 /\ lastCall.ret.bus_fwd = 0

\* C3: default build: under either policy and in every reachable state,
\* fwd answers 2 for bus 0, 20 for bus 1, for bus 2 -1 when the address is
\* 832 or 1157 and 0 otherwise, and -1 for every other bus; and every fwd
\* call made returned just that, whatever the memory was.
C3_DefaultFwdTable ==
  build = "test" =>
    /\ \A p \in Policies, bus_num \in BusNums : \A f \in FwdFrames(bus_num) :
         call_fwd(hooks_of(build, p).fwd, Mem, bus_num, f).ret
           = FwdExpectedDefault(bus_num, f.addr)
    /\ lastCall.op = "fwd" =>
         lastCall.ret.bus_fwd = FwdExpectedDefault(lastCall.args.bus_num,
                                                   lastCall.args.to_fwd.addr)

\* a 1157-frame from bus 2 was held back
C3_Witness ==
  /\ build = "test" /\ lastCall.op = "fwd" /\ lastCall.args.bus_num = 2
  /\ lastCall.args.to_fwd.addr = 1157 /\ lastCall.ret.bus_fwd = -1

\* C4: bus0_hold_count is never negative.
C4_HoldNeverNegative == HKG_LKAS_bus0_cnt >= 0

\* an 832-frame on bus 2 arrived with hold = 0 and left it at 0
C4_Witness ==
  /\ HKG /\ RxOf(LKAS2)
  /\ lastCall.pre.HKG_LKAS_bus0_cnt = 0 /\ HKG_LKAS_bus0_cnt = 0

\* C5: HKG build: an rx call writes a line exactly when it changes
\* forward_enabled ("disabled" on TRUE -> FALSE, "enabled" on FALSE -> TRUE,
\* one line at most), no other call writes one, and so the lines written
\* alternate, beginning with "disabled".
C5_EdgeTriggered ==
  HKG =>
    /\ lastCall.op = "rx" =>
         /\ Len(lastCall.puts) <= 1
         /\ lastCall.puts # <<>>
              <=> HKG_forward_bus2 # lastCall.pre.HKG_forward_bus2
         /\ lastCall.puts = <<MsgDisabled>>
              => lastCall.pre.HKG_forward_bus2 /\ ~HKG_forward_bus2
         /\ lastCall.puts = <<MsgEnabled>>
              => ~lastCall.pre.HKG_forward_bus2 /\ HKG_forward_bus2
    /\ lastCall.op # "rx" => lastCall.puts = <<>>
    /\ \A i \in 1..Len(console) :
         console[i] = IF i % 2 = 1 THEN MsgDisabled ELSE MsgEnabled

\* disabled, enabled, disabled were written
C5_Witness ==
  /\ HKG /\ Len(console) = 3 /\ RxOf(LKAS0) /\ lastCall.puts = <<MsgDisabled>>

\* C6: HKG build: an 832-frame on bus 0 received with forward_enabled
\* FALSE sets hold to 10, leaves forward_enabled FALSE and writes no line;
\* and from any state, receiving it twice leaves the memory as receiving it
\* once does, the second receipt writing no line.
C6_Rearm ==
  HKG =>
    /\ RxOf(LKAS0) /\ ~lastCall.pre.HKG_forward_bus2 =>
         /\ HKG_LKAS_bus0_cnt = 10
         /\ ~HKG_forward_bus2
         /\ lastCall.puts = <<>>
    /\ \A p \in Policies :
         LET once  == call_rx(hooks_of(build, p).rx, Mem, LKAS0)
             twice == call_rx(hooks_of(build, p).rx, once.m, LKAS0)
         IN  /\ twice.m = once.m
             /\ twice.puts = <<>>
             /\ once.m.HKG_LKAS_bus0_cnt = 10 /\ ~once.m.HKG_forward_bus2

\* a bus-0 frame re-armed a hold that had counted down to 4
C6_Witness ==
  /\ HKG /\ RxOf(LKAS0) /\ ~lastCall.pre.HKG_forward_bus2
  /\ lastCall.pre.HKG_LKAS_bus0_cnt = 4 /\ HKG_LKAS_bus0_cnt = 10

\* C7: both builds: tx and tx_lin of nooutput return FALSE and those of
\* alloutput return TRUE, for every input and in every reachable state,
\* whatever controls_allowed, relay_malfunction and the hysteresis are.
C7_TxFixedPerPolicy ==
  /\ \A p \in Policies :
       /\ \A f \in Frames :
            call_tx(hooks_of(build, p).tx, Mem, f).ret = (p = "alloutput")
       /\ \A lin_num \in LinNums, len \in LinLens : \A data \in LinData(len) :
            call_tx_lin(hooks_of(build, p).tx_lin, Mem, lin_num, data, len).ret
              = (p = "alloutput")
  /\ lastCall.op \in {"tx", "tx_lin"} =>
       lastCall.ret.permit = (lastCall.hooks = "alloutput")

\* nooutput denied a frame while controls_allowed was TRUE
C7_Witness ==
  /\ lastCall.op = "tx" /\ lastCall.hooks = "nooutput"
  /\ lastCall.pre.controls_allowed /\ HKG /\ lastCall.ret.permit = FALSE

\* C8: right after init of a policy, relay_malfunction is FALSE and
\* controls_allowed is the policy's value (FALSE for nooutput, TRUE for
\* alloutput), whatever they were before and whatever param was.
C8_InitSetsLatches ==
  lastCall.op = "init" =>
    /\ ~relay_malfunction
    /\ controls_allowed = (lastCall.hooks = "alloutput")

\* nooutput was activated after alloutput, with both latches set
C8_Witness ==
  /\ lastCall.op = "init" /\ lastCall.hooks = "nooutput"
  /\ lastCall.was = "alloutput"
  /\ lastCall.pre.controls_allowed /\ lastCall.pre.relay_malfunction
  /\ ~controls_allowed /\ ~relay_malfunction

\* C9: both builds, both policies: rx returns TRUE for every frame in every
\* reachable state.
C9_RxAlwaysAccepts ==
  /\ \A p \in Policies, f \in Frames :
       call_rx(hooks_of(build, p).rx, Mem, f).ret = TRUE
  /\ lastCall.op = "rx" => lastCall.ret.accept = TRUE

\* the frame that suspended the relay was accepted
C9_Witness ==
  /\ HKG /\ RxOf(LKAS0) /\ lastCall.pre.HKG_forward_bus2
  /\ ~HKG_forward_bus2 /\ lastCall.ret.accept = TRUE

\* C10: HKG build: every call other than rx of an 832-frame on bus 0 or
\* bus 2 leaves forward_enabled and hold as they were: rx of any other
\* address or bus, fwd, tx, tx_lin, and init of either policy.
C10_OnlyWatchedRxWrites ==
  HKG /\ lastCall.op # "boot"
      /\ ~(lastCall.op = "rx" /\ lastCall.args.to_push \in {LKAS0, LKAS2}) =>
    /\ HKG_forward_bus2 = lastCall.pre.HKG_forward_bus2
    /\ HKG_LKAS_bus0_cnt = lastCall.pre.HKG_LKAS_bus0_cnt

\* init ran in the middle of a hold and did not restart the hysteresis
C10_Witness ==
  /\ HKG /\ lastCall.op = "init" /\ lastCall.hooks = "nooutput"
  /\ ~HKG_forward_bus2 /\ HKG_LKAS_bus0_cnt = 7

\* C11: in both builds and under both policies, every rx, tx, tx_lin and
\* fwd call, whatever its input and the state it is made in, leaves
\* controls_allowed, relay_malfunction and the active policy as they were;
\* every tx, tx_lin and fwd call leaves the whole memory as it was and
\* writes no line.
C11_LatchesWrittenByInitOnly ==
  /\ lastCall.op \in {"rx", "tx", "tx_lin", "fwd"} =>
       /\ controls_allowed = lastCall.pre.controls_allowed
       /\ relay_malfunction = lastCall.pre.relay_malfunction
       /\ current_hooks = lastCall.was
  /\ lastCall.op \in {"tx", "tx_lin", "fwd"} =>
       Mem = lastCall.pre /\ lastCall.puts = <<>>

\* nooutput denied a frame and left both latches set
C11_Witness ==
  /\ lastCall.op = "tx" /\ lastCall.hooks = "nooutput"
  /\ controls_allowed /\ relay_malfunction
  /\ lastCall.pre.controls_allowed /\ lastCall.pre.relay_malfunction

\* C15: 0 <= bus0_hold_count <= 10 in every reachable state, and
\* forward_enabled = TRUE implies bus0_hold_count = 0.
C15_HoldBoundedAndSuspended ==
  /\ HKG_LKAS_bus0_cnt \in 0..10
  /\ HKG_forward_bus2 => HKG_LKAS_bus0_cnt = 0

\* a bus-0 frame has just suspended the relay with the hold at its maximum
C15_Witness ==
  /\ HKG /\ RxOf(LKAS0) /\ lastCall.pre.HKG_forward_bus2
  /\ ~HKG_forward_bus2 /\ HKG_LKAS_bus0_cnt = 10

\* C16: within a build, nooutput and alloutput give, from every reachable
\* memory and for every frame, the same rx result (return value,
\* hysteresis, lines) and the same fwd result, and these are what the same
\* memory with both latches cleared gives (every reachable memory agrees
\* with its latch-free one, hence with every other setting of the latches);
\* so the two policies agree at every step of any sequence of received
\* frames (fwd is asked about each bus_num with the frames that came in on
\* it).
C16_PolicyIndependent ==
  /\ \A f \in Frames :
       call_rx(hooks_of(build, "nooutput").rx, Mem, f)
         = call_rx(hooks_of(build, "alloutput").rx, Mem, f)
  /\ \A bus_num \in BusNums : \A f \in FwdFrames(bus_num) :
       call_fwd(hooks_of(build, "nooutput").fwd, Mem, bus_num, f)
         = call_fwd(hooks_of(build, "alloutput").fwd, Mem, bus_num, f)
  /\ LET m2 == [Mem EXCEPT !.controls_allowed = FALSE,
                           !.relay_malfunction = FALSE]
     IN  /\ \A f \in Frames :
              LET r  == call_rx(hooks_of(build, "nooutput").rx, Mem, f)
                  r2 == call_rx(hooks_of(build, "nooutput").rx, m2, f)
              IN  /\ r2.ret = r.ret /\ r2.puts = r.puts
                  /\ r2.m.HKG_forward_bus2 = r.m.HKG_forward_bus2
                  /\ r2.m.HKG_LKAS_bus0_cnt = r.m.HKG_LKAS_bus0_cnt
         /\ \A bus_num \in BusNums : \A f \in FwdFrames(bus_num) :
              call_fwd(hooks_of(build, "nooutput").fwd, m2, bus_num, f).ret
                = call_fwd(hooks_of(build, "nooutput").fwd, Mem, bus_num, f).ret

\* nooutput relayed a frame from bus 0 to bus 2 with controls_allowed FALSE
C16_Witness ==
  /\ HKG /\ lastCall.op = "fwd" /\ lastCall.hooks = "nooutput"
  /\ ~controls_allowed /\ lastCall.args.bus_num = 0 /\ lastCall.ret.bus_fwd = 2

\* C17: right after an init, the CAN mode is CAN_MODE_OBD_CAN2 if the build
\* is the default one, the policy is nooutput and the board has_obd, and is
\* what it was before the call otherwise (HKG build, alloutput, or no OBD).
C17_ObdModeOnlyDefaultNoOutput ==
  lastCall.op = "init" =>
    IF build = "test" /\ lastCall.hooks = "nooutput" /\ has_obd
      THEN can_mode = "CAN_MODE_OBD_CAN2"
      ELSE can_mode = lastCall.pre.can_mode

\* the default nooutput init switched an OBD board from the normal mode
C17_Witness ==
  /\ build = "test" /\ lastCall.op = "init" /\ lastCall.hooks = "nooutput"
  /\ has_obd /\ lastCall.pre.can_mode = "CAN_MODE_NORMAL"
  /\ can_mode = "CAN_MODE_OBD_CAN2"

\* C18: for either policy and any two param values, from every reachable
\* memory, init called twice leaves the memory (controls_allowed,
\* relay_malfunction, CAN mode, hysteresis) as init called once, and each
\* call returns default_rx_checks, whose len is 0 and check is NULL.
C18_InitIdempotent ==
  /\ \A p \in Policies, a \in Params, b \in Params :
       LET once  == call_init(hooks_of(build, p).init, Mem, a)
           twice == call_init(hooks_of(build, p).init, once.m, b)
       IN  /\ twice.m = once.m
           /\ once.ret = default_rx_checks /\ twice.ret = default_rx_checks
           /\ once.ret.len = 0 /\ once.ret.check = "NULL"
  /\ lastCall.op = "init" =>
       lastCall.ret.checks = [check |-> "NULL", len |-> 0]

\* alloutput was initialised again and nothing changed
C18_Witness ==
  /\ lastCall.op = "init" /\ lastCall.hooks = "alloutput"
  /\ lastCall.was = "alloutput" /\ lastCall.pre = Mem /\ controls_allowed

\* C12: HKG build, the driver calling rx and then fwd for each frame: an
\* 832-frame that came in on bus 0 is never relayed (fwd answers -1), and
\* an 832-frame that came in on bus 2 is not relayed to bus 0 (fwd answers
\* -1) while it is among the first 10 such frames after the last 832-frame
\* on bus 0.
C12_OneSourceRelayed ==
  HKG /\ lastCall.op = "can_rx" =>
    /\ lastCall.args.to_push = LKAS0 => lastCall.ret.bus_fwd = -1
    /\ lastCall.args.to_push = LKAS2 /\ bus2_since_bus0 \in 1..10 =>
         lastCall.ret.bus_fwd = -1

\* the 10th bus-2 frame after a bus-0 frame was held back
C12_Witness ==
  /\ HKG /\ lastCall.op = "can_rx" /\ lastCall.args.to_push = LKAS2
  /\ bus2_since_bus0 = 10 /\ lastCall.ret.bus_fwd = -1

\* a step that receives an 832-frame on bus 0
RxOnBus0 == lastCall'.op = "rx" /\ lastCall'.args.to_push = LKAS0

\* C13: with 832-frames received on bus 2 again and again (weak fairness
\* of that receipt): if from some point on no 832-frame is received on bus
\* 0, forward_enabled eventually is TRUE and stays TRUE; and forward_enabled
\* goes from FALSE to TRUE only in an rx call of an 832-frame on bus 2
\* made with hold = 0.
C13_ResumesEventually ==
  /\ (<>[][~RxOnBus0]_vars) => <>[]HKG_forward_bus2
  /\ [][(~HKG_forward_bus2 /\ HKG_forward_bus2') =>
          /\ lastCall'.op = "rx" /\ lastCall'.args.to_push = LKAS2
          /\ HKG_LKAS_bus0_cnt = 0]_vars

\* the relay was suspended and an 832-frame on bus 2 has just resumed it
C13_Witness ==
  /\ HKG /\ RxOf(LKAS2) /\ lastCall.pre.HKG_LKAS_bus0_cnt = 0
  /\ ~lastCall.pre.HKG_forward_bus2 /\ HKG_forward_bus2
  /\ Len(console) >= 2

\* C14: rx invocations followed one read or write at a time: when they are
\* serialized, no state between invocations has bus0_hold_count < 0 or
\* forward_enabled = TRUE with bus0_hold_count > 0; when they are not, such
\* a state is reachable (C14_Witness).
C14_SerializedKeepsHysteresis ==
  rx_calls.serialized /\ Quiescent =>
    ~ \/ HKG_LKAS_bus0_cnt < 0
      \/ HKG_forward_bus2 /\ HKG_LKAS_bus0_cnt > 0

\* unserialized, all invocations returned: the relay is on with a hold
\* pending (a bus-2 invocation set the flag after a bus-0 one had tested it)
C14_Witness ==
  /\ ~rx_calls.serialized /\ Quiescent
  /\ HKG_forward_bus2 /\ HKG_LKAS_bus0_cnt > 0

=============================================================================
